---- MODULE Spec2Model ----
(***************************************************************************)
(* Model of src/app/ipref.c: the throughput test pair test_tcp_server and  *)
(* test_tcp_client over the sock_tcp API.  Both routines live in one       *)
(* translation unit and use the same global buf; each runs on its own      *)
(* thread, and every blocking sock call is a step whose outcome (error or  *)
(* byte count, peer data, clock advance) is chosen by the environment.     *)
(*                                                                         *)
(* TLC integers are 32 bit, so the quantities of the code are scaled: the  *)
(* clock counts modulo TickMod instead of 2^32, the report interval is     *)
(* ReportInterval ticks instead of 2000*1000 and buf holds BufSize bytes   *)
(* instead of 2*1024.  The rate printed at line 110 is held as the exact   *)
(* fraction the expression of line 109 denotes; the rounding of the single *)
(* precision operations is not modelled.                                   *)
(***************************************************************************)
EXTENDS Integers, Sequences, FiniteSets, TLC

\* ---- bounds -------------------------------------------------------------
\* sizeof(buf), 2 * 1024 in the code
BufSize == 2
\* the reporting interval, 2000 * 1000 microseconds in the code
ReportInterval == 3
\* the modulus of the uint32_t clock values, 2^32 in the code
TickMod == 6
\* sock_tcp_write calls the client may issue (handshake included)
MaxWrites == 3
\* sock_tcp_accept calls the server may issue
MaxAccepts == 3
\* sock_tcp_read calls the server may issue
MaxReads == 2

\* ---- program constants --------------------------------------------------
\* memset(buf, 97, sizeof(buf))
Filler == 97
\* sizeof("Hello!")
HelloLen == 7

\* error results of the sock calls (negative errno values)
Errors == {-1}
\* bytes a peer may send to the server
PeerBytes == {0, Filler}
\* advances of the microsecond clock between two readings: none, less than
\* the interval, the interval, and one short of a full turn of the counter
Deltas == {0, 1, ReportInterval, TickMod - 1}
\* the handle of the client's global sock
CSock == 0
\* the handles sock_tcp_accept hands out, one per accepted connection
SSocks == 1..MaxAccepts
Handles == {CSock} \cup SSocks

VARIABLES
    buf,        \* uint8_t buf[2 * 1024], shared by both routines
    now,        \* the value of the xtimer microsecond counter
    \* test_tcp_server
    spc,        \* position of the server thread
    ssock,      \* sock_tcp_t *sock of the accept loop: {} unset, or {handle}
    read_res,   \* int read_res
    sret,       \* return value of test_tcp_server
    nAccepts,   \* sock_tcp_accept calls issued
    nReads,     \* sock_tcp_read calls issued
    slast,      \* the last transport call of the server and its outcome
    sWrites,    \* sock_tcp_write calls issued by the server
    \* test_tcp_client
    cpc,        \* position of the client thread
    res,        \* int res
    sentlen,    \* uint64_t sentlen
    tick1,      \* uint32_t tick1
    tick2,      \* uint32_t tick2
    cret,       \* return value of test_tcp_client
    nWrites,    \* sock_tcp_write calls issued (handshake and stream)
    nFailed,    \* sock_tcp_write calls that returned an error
    nOk,        \* stream writes that returned a byte count
    winsum,     \* bytes the stream writes reported as written in this window
    repBytes,   \* sum of the sentlen values of all reports made
    reported,   \* the current loop iteration made a report
    lastrep,    \* the report of the current loop iteration: rate printed,
                \* divisor, bytes written in the window
    elapsed,    \* true microseconds from the reading that set tick1 to the
                \* reading the last check of line 107 used
    late,       \* the last clock reading came more than LongestStep after
                \* the one before it
    nConnects,  \* sock_tcp_connect calls issued
    wlen,       \* the len argument of the last sock_tcp_write call
    \* the transport provider
    estab,      \* handles connect/accept have established
    open,       \* established handles not yet disconnected
    disc        \* sock_tcp_disconnect calls per handle

svars == <<spc, ssock, read_res, sret, nAccepts, nReads, slast, sWrites>>
cwin == <<sentlen, tick1, tick2, winsum, repBytes, reported, lastrep, elapsed, late>>
cvars == <<cpc, res, cret, nWrites, nFailed, nOk, nConnects, wlen, cwin>>
tvars == <<estab, open, disc>>
vars == <<buf, now, svars, cvars, tvars>>

\* ---- pure helpers -------------------------------------------------------
\* n, held at m once it has reached it (the counters of the model stop there)
Sat(n, m) == IF n < m THEN n ELSE m

\* n + 1 up to m; from m on the count goes back and forth between m - 1 and
\* m, so that a call past the bound is still a step
Turn(n, m) == IF n < m THEN n + 1 ELSE m - 1

\* the modulus of uint64_t sentlen, 2^64 in the code; it lies above what the
\* writes within MaxWrites can add up to
LenMod == BufSize * (MaxWrites + 1)

\* the longest time between two clock readings after which a reading that
\* was below the interval cannot have passed a full turn of the counter
LongestStep == TickMod - ReportInterval

\* the largest true elapsed time the model tells apart
ElapsedCap == MaxWrites * TickMod

RECURSIVE Gcd(_, _)
Gcd(a, b) == IF b = 0 THEN a ELSE Gcd(b, a % b)

\* the fraction n/d in lowest terms (d > 0)
Frac(n, d) == LET g == Gcd(n, d) IN [num |-> n \div g, den |-> d \div g]

\* tick2 - tick1 on signed operands, without the wrap
TickDiffSigned(t2, t1) == t2 - t1

\* tick2 - tick1 on uint32_t operands
TickDiff(t2, t1) == (t2 - t1 + TickMod) % TickMod

\* a report only when more than the interval has passed
ReportDueStrict(t1, t2) == TickDiff(t2, t1) > ReportInterval

\* tick2 - tick1 >= 2000 * 1000
ReportDue(t1, t2) == TickDiff(t2, t1) >= ReportInterval

\* (float)sentlen * 8 * 1000 * 1000 / 1024 / 1024 / (tick2 - tick1)
Speed(len, dt) == Frac(len * 8 * 1000 * 1000, 1024 * 1024 * dt)

\* lastrep of an iteration that prints nothing
NoReport == [f |-> Frac(0, 1), dt |-> 0, sum |-> 0]

\* a reset that forgets the byte counter
WindowResetKeepsLen(t2, len) == [tick1 |-> t2, sentlen |-> len]

\* tick1 = tick2; sentlen = 0;
WindowReset(t2, len) == [tick1 |-> t2, sentlen |-> 0]

\* sentlen += sizeof(buf);
Accumulate(len, r) == (len + BufSize) % LenMod

\* a stream write that passes the size of the greeting
StreamLenOfHello == HelloLen

\* the len argument of the stream write: sizeof(buf)
StreamLen == BufSize

\* an else branch that writes the bytes read back to the peer
ServerEchoes(r) == r >= 0

\* the else branch of the read check writes to the peer: its
\* sock_tcp_write is commented out
ServerEcho(r) == FALSE

\* results a write of len bytes may return: an error, or a count of bytes
\* written (none, one, all)
WriteResults(len) == Errors \cup {0, 1, len}

\* results a read into a buffer of len bytes may return: an error, or a
\* count of bytes received (none, one, as many as fit)
ReadResults(len) == Errors \cup {0, 1, len}

\* the branch taken on the result of sock_tcp_listen
ListenNext(r) == IF r < 0 THEN "returned" ELSE "accept"

\* an accept failure that ends the routine
AcceptNextReturns(r) == IF r < 0 THEN "returned" ELSE "read"

\* the branch taken on the result of sock_tcp_accept
AcceptNext(r) == IF r < 0 THEN "accept" ELSE "read"

\* a read that ends the connection when no byte came
ReadNextStopsOnZero(r) == IF r <= 0 THEN "disconnect" ELSE "read"

\* a read failure that ends the routine
ReadNextReturns(r) == IF r < 0 THEN "returned" ELSE "read"

\* a read failure that does not leave the read loop
ReadNextKeepsReading(r) == "read"

\* a read failure that goes back to the accept without the disconnect
ReadNextNoDisconnect(r) == IF r < 0 THEN "accept" ELSE "read"

\* the branch taken on the result of sock_tcp_read
ReadNext(r) == IF r < 0 THEN "disconnect" ELSE "read"

\* a connect failure that is ignored
ConnectNextIgnoresError(r) == "handshake"

\* the branch taken on the result of sock_tcp_connect
ConnectNext(r) == IF r < 0 THEN "done" ELSE "handshake"

\* a handshake failure that returns without the disconnect
HandshakeNextReturns(r) == IF r < 0 THEN "done" ELSE "tick1"

\* a handshake failure that does not keep the client from streaming
HandshakeNextStreams(r) == "tick1"

\* the branch taken on the result of the write of "Hello!"
HandshakeNext(r) == IF r < 0 THEN "disconnect" ELSE "tick1"

\* a stream write that leaves the loop when it wrote less than the buffer
WriteNextStopsOnShort(r) == IF r < BufSize THEN "disconnect" ELSE "loop"

\* a stream write failure that does not leave the loop
WriteNextContinues(r) == "loop"

\* the branch taken on the result of a stream write
WriteNext(r) == IF r < 0 THEN "disconnect" ELSE "loop"

\* the handle the next successful sock_tcp_accept stores in sock
NewSock == Sat(Cardinality(estab \cap SSocks) + 1, MaxAccepts)

\* sock_tcp_disconnect(h) as seen by the transport provider
Disconnect(h) ==
    /\ disc' = [disc EXCEPT ![h] = Sat(@ + 1, 2)]
    /\ open' = open \ {h}
    /\ estab' = estab

\* ---- initial state ------------------------------------------------------
Init ==
    /\ buf = [i \in 1..BufSize |-> 0]
    /\ now = 0
    /\ spc = "listen"
    /\ ssock = {}
    /\ read_res = 0
    /\ sret = 0
    /\ nAccepts = 0
    /\ nReads = 0
    /\ slast = "none"
    /\ cpc = "memset"
    /\ res = 0
    /\ sentlen = 0
    /\ tick1 = 0
    /\ tick2 = 0
    /\ cret = 0
    /\ nWrites = 0
    /\ nFailed = 0
    /\ nOk = 0
    /\ winsum = 0
    /\ repBytes = 0
    /\ reported = FALSE
    /\ lastrep = NoReport
    /\ elapsed = 0
    /\ late = FALSE
    /\ nConnects = 0
    /\ wlen = 0
    /\ sWrites = 0
    /\ estab = {}
    /\ open = {}
    /\ disc = [h \in Handles |-> 0]

\* ---- test_tcp_server ----------------------------------------------------
\* sock_tcp_listen and the return on its failure
s_listen ==
    /\ spc = "listen"
    /\ \E r \in Errors \cup {0} :
        /\ spc' = ListenNext(r)
        /\ sret' = IF spc' = "returned" THEN 1 ELSE sret
        /\ slast' = IF r < 0 THEN "listen_err" ELSE "listen_ok"
    /\ UNCHANGED <<buf, now, ssock, read_res, nAccepts, nReads, sWrites,
                   cvars, tvars>>

\* one pass of while (1): sock_tcp_accept and the branch on its result;
\* bounded: only MaxAccepts calls are followed
s_accept_op(bounded) ==
    /\ spc = "accept"
    /\ bounded => nAccepts < MaxAccepts
    /\ nAccepts' = Turn(nAccepts, MaxAccepts)
    /\ \E r \in Errors \cup {0} :
        /\ spc' = AcceptNext(r)
        /\ slast' = IF r < 0 THEN "accept_err" ELSE "accept_ok"
        /\ IF r < 0
           THEN /\ ssock' = {}
                /\ UNCHANGED tvars
           ELSE /\ ssock' = {NewSock}
                /\ estab' = estab \cup {NewSock}
                /\ open' = open \cup {NewSock}
                /\ disc' = disc
        /\ read_res' = IF spc' = "read" THEN 0 ELSE read_res
    /\ UNCHANGED <<buf, now, sret, nReads, sWrites, cvars>>

s_accept == s_accept_op(TRUE)

s_accept_live == s_accept_op(FALSE)

\* while (read_res >= 0): the call of sock_tcp_read(sock, &buf, sizeof(buf));
\* bounded: only MaxReads calls are followed
s_read_call_op(bounded) ==
    /\ spc = "read"
    /\ read_res >= 0
    /\ bounded => nReads < MaxReads
    /\ nReads' = Sat(nReads + 1, MaxReads)
    /\ spc' = "reading"
    /\ slast' = "read_call"
    /\ UNCHANGED <<buf, now, ssock, read_res, sret, nAccepts, sWrites,
                   cvars, tvars>>

s_read_call == s_read_call_op(TRUE)

s_read_call_live == s_read_call_op(FALSE)

\* the return of sock_tcp_read with result r and r bytes b stored in buf,
\* and the branch on read_res
s_read_ret_with(r, b) ==
    /\ spc = "reading"
    /\ read_res' = r
    /\ buf' = [i \in 1..BufSize |-> IF i <= r THEN b ELSE buf[i]]
    /\ spc' = ReadNext(r)
    /\ slast' = IF r < 0 THEN "read_err" ELSE "read_ok"
    /\ sWrites' = IF r >= 0 /\ ServerEcho(r) THEN Sat(sWrites + 1, 1)
                  ELSE sWrites
    /\ UNCHANGED <<now, ssock, sret, nAccepts, nReads, cvars, tvars>>

s_read_ret == \E r \in ReadResults(BufSize), b \in PeerBytes : s_read_ret_with(r, b)

\* sock_tcp_disconnect(sock) and the jump back to the accept
s_disconnect ==
    /\ spc = "disconnect"
    /\ \E h \in ssock : Disconnect(h)
    /\ ssock' = {}
    /\ spc' = "accept"
    /\ slast' = "disconnect"
    /\ UNCHANGED <<buf, now, read_res, sret, nAccepts, nReads, sWrites, cvars>>

\* ---- test_tcp_client ----------------------------------------------------
\* memset(buf, 97, sizeof(buf))
c_memset ==
    /\ cpc = "memset"
    /\ buf' = [i \in 1..BufSize |-> Filler]
    /\ cpc' = "connect"
    /\ UNCHANGED <<now, svars, res, cret, nWrites, nFailed, nOk, nConnects,
                   wlen, cwin, tvars>>

\* sock_tcp_connect(&sock, &remote, 0, 0) and the return on its failure
c_connect ==
    /\ cpc = "connect"
    /\ nConnects' = Sat(nConnects + 1, 2)
    /\ \E r \in Errors \cup {0} :
        /\ cpc' = ConnectNext(r)
        /\ cret' = IF cpc' = "done" THEN 1 ELSE cret
        /\ IF r < 0
           THEN UNCHANGED tvars
           ELSE /\ estab' = estab \cup {CSock}
                /\ open' = open \cup {CSock}
                /\ disc' = disc
    /\ UNCHANGED <<buf, now, svars, res, nWrites, nFailed, nOk, wlen, cwin>>

\* res = sock_tcp_write(&sock, "Hello!", sizeof("Hello!"))
c_handshake ==
    /\ cpc = "handshake"
    /\ nWrites < MaxWrites
    /\ nWrites' = nWrites + 1
    /\ wlen' = HelloLen
    /\ \E r \in WriteResults(HelloLen) :
        /\ res' = r
        /\ nFailed' = IF r < 0 THEN nFailed + 1 ELSE nFailed
        /\ cpc' = HandshakeNext(r)
    /\ UNCHANGED <<buf, now, svars, cret, nOk, nConnects, cwin, tvars>>

\* the write counts, the byte sums and the true elapsed time are kept for the
\* first MaxWrites writes; past them the sums and the elapsed time stay at 0
Followed == nWrites <= MaxWrites

\* tick1 = xtimer_now_usec()
c_tick1 ==
    /\ cpc = "tick1"
    /\ \E d \in Deltas :
        /\ now' = (now + d) % TickMod
        /\ tick1' = now'
    /\ elapsed' = 0
    /\ late' = FALSE
    /\ cpc' = "loop"
    /\ UNCHANGED <<buf, svars, res, cret, nWrites, nFailed, nOk, nConnects,
                   wlen, sentlen, tick2, winsum, repBytes, reported, lastrep,
                   tvars>>

\* the head of while (1), d microseconds after the last clock reading:
\* tick2 = xtimer_now_usec() and the report
c_loop_after(d) ==
    /\ cpc = "loop"
    /\ now' = (now + d) % TickMod
    /\ tick2' = now'
    /\ late' = (d > LongestStep)
    /\ elapsed' = IF Followed
                  THEN Sat((IF reported THEN 0 ELSE elapsed) + d, ElapsedCap)
                  ELSE 0
    /\ IF ReportDue(tick1, tick2')
       THEN /\ lastrep' = [f |-> Speed(sentlen, TickDiff(tick2', tick1)),
                           dt |-> TickDiff(tick2', tick1),
                           sum |-> winsum]
            /\ reported' = TRUE
            /\ repBytes' = IF Followed THEN Sat(repBytes + sentlen, LenMod)
                                       ELSE 0
            /\ tick1' = WindowReset(tick2', sentlen).tick1
            /\ sentlen' = WindowReset(tick2', sentlen).sentlen
            /\ winsum' = 0
       ELSE /\ reported' = FALSE
            /\ lastrep' = NoReport
            /\ repBytes' = IF Followed THEN repBytes ELSE 0
            /\ UNCHANGED <<tick1, sentlen, winsum>>
    /\ cpc' = "write"
    /\ UNCHANGED <<buf, svars, res, cret, nWrites, nFailed, nOk, nConnects,
                   wlen, tvars>>

c_loop == \E d \in Deltas : c_loop_after(d)

\* the call of sock_tcp_write(&sock, buf, sizeof(buf)); bounded: only
\* MaxWrites calls are followed
c_write_call_op(bounded) ==
    /\ cpc = "write"
    /\ bounded => nWrites < MaxWrites
    /\ nWrites' = Sat(nWrites + 1, MaxWrites + 1)
    /\ wlen' = StreamLen
    /\ cpc' = "writing"
    /\ UNCHANGED <<buf, now, svars, res, cret, nFailed, nOk, nConnects, cwin,
                   tvars>>

c_write_call == c_write_call_op(TRUE)

c_write_call_live == c_write_call_op(FALSE)

\* the return of sock_tcp_write with result r and the branch on res
c_write_ret_with(r) ==
    /\ cpc = "writing"
    /\ res' = r
    /\ cpc' = WriteNext(r)
    /\ IF r < 0
       THEN /\ nFailed' = nFailed + 1
            /\ UNCHANGED <<sentlen, winsum, nOk>>
       ELSE /\ nFailed' = nFailed
            /\ sentlen' = Accumulate(sentlen, r)
            /\ winsum' = IF Followed THEN Sat(winsum + r, LenMod) ELSE 0
            /\ nOk' = Sat(nOk + 1, MaxWrites)
    /\ UNCHANGED <<buf, now, svars, cret, nWrites, nConnects, wlen, tick1,
                   tick2, repBytes, reported, lastrep, elapsed, late, tvars>>

c_write_ret == \E r \in WriteResults(wlen) : c_write_ret_with(r)

\* sock_tcp_disconnect(&sock); return res;
c_disconnect ==
    /\ cpc = "disconnect"
    /\ Disconnect(CSock)
    /\ cret' = res
    /\ cpc' = "done"
    /\ UNCHANGED <<buf, now, svars, res, nWrites, nFailed, nOk, nConnects,
                   wlen, cwin>>

Server == s_listen \/ s_accept \/ s_read_call \/ s_read_ret \/ s_disconnect

Client == \/ c_memset \/ c_connect \/ c_handshake \/ c_tick1 \/ c_loop
          \/ c_write_call \/ c_write_ret \/ c_disconnect

Next == Server \/ Client

Spec == Init /\ [][Next]_vars

\* ---- properties ---------------------------------------------------------
\* the client is between the success of the handshake write and the end of
\* the stream loop
InStream == cpc \in {"tick1", "loop", "write", "writing"}

\* the write of "Hello!" was the client's only write and it failed
HandshakeFailed == nWrites = 1 /\ nFailed = 1

\* the connect was issued and failed
ConnectFailed == cpc \notin {"memset", "connect"} /\ CSock \notin estab

\* C1: every established connection is disconnected exactly once on every
\* exit path (the client has returned after a connect that succeeded; the
\* server no longer holds the accepted handle), never more than once, and
\* no disconnect is made on a handle that was not established.
C1_DisconnectOnce ==
    /\ \A h \in Handles : disc[h] <= 1
    /\ \A h \in Handles : disc[h] > 0 => h \in estab
    /\ \A h \in estab : disc[h] = (IF h \in open THEN 0 ELSE 1)
    /\ (cpc = "done" /\ CSock \in estab) => disc[CSock] = 1
    /\ \A h \in estab \cap SSocks : h \notin ssock => disc[h] = 1

\* C1 witness: the client has returned after a stream write failed, and the
\* server has left a connection on a read error; each handle saw one
\* disconnect.
C1_Witness ==
    /\ cpc = "done" /\ CSock \in estab /\ nWrites > 1 /\ nFailed = 1
    /\ disc[CSock] = 1
    /\ \E h \in estab \cap SSocks : h \notin ssock /\ disc[h] = 1
    /\ slast = "disconnect"

\* C2: the server holds at most one accepted handle that is not yet
\* disconnected (the one its sock pointer names), and when an accept
\* succeeds every handle accepted before it has been disconnected.
C2_SingleConnection ==
    /\ [](/\ Cardinality(open \cap SSocks) <= 1
          /\ (open \cap SSocks) \subseteq ssock)
    /\ [][(nAccepts' = nAccepts + 1 /\ slast' = "accept_ok")
            => \A h \in estab \cap SSocks : disc[h] = 1 /\ h \notin open]_vars

\* C2 witness: a second connection is held after the first was disconnected.
C2_Witness ==
    /\ Cardinality(estab \cap SSocks) = 2
    /\ Cardinality(open \cap SSocks) = 1
    /\ spc = "reading"

\* C3 as stated: whatever the handshake write returns, the client goes on to
\* the stream phase.
C3_StreamsAfterAnyHandshake ==
    [][(cpc = "handshake" /\ cpc' # cpc) => cpc' = "tick1"]_vars

\* C3 amended: the client enters the stream phase exactly when the handshake
\* write succeeds; when it returns an error the client goes straight to the
\* disconnect and never issues a stream write.
C3_HandshakeGatesStream ==
    /\ [][(cpc = "handshake" /\ cpc' # cpc)
            => cpc' = (IF res' < 0 THEN "disconnect" ELSE "tick1")]_vars
    /\ [](HandshakeFailed => cpc \in {"disconnect", "done"})
    /\ [][HandshakeFailed => nWrites' = nWrites]_vars

\* C3 witness: the handshake write failed and the client has returned with
\* one write issued and the connection disconnected.
C3_Witness ==
    /\ HandshakeFailed /\ cpc = "done" /\ disc[CSock] = 1 /\ cret < 0

\* C4: after a failed connect the client has returned 1 at once, with no
\* write and no disconnect issued, and it takes no further step.
C4_ConnectFailure ==
    /\ [](ConnectFailed
            => /\ cpc = "done" /\ cret = 1
               /\ nWrites = 0 /\ disc[CSock] = 0)
    /\ [][ConnectFailed => cvars' = cvars /\ disc'[CSock] = disc[CSock]]_vars

\* C4 witness: the client returned 1 from a failed connect.
C4_Witness == ConnectFailed /\ cpc = "done" /\ cret = 1

\* C5: once a write (handshake or stream, the k-th after k-1 successes) has
\* returned an error, no write is issued any more, the client disconnects
\* exactly once and returns.
C5_WriteFailure ==
    /\ [](/\ nFailed <= 1
          /\ nFailed = 1 => /\ res < 0
                            /\ cpc \in {"disconnect", "done"}
                            /\ disc[CSock] = (IF cpc = "done" THEN 1 ELSE 0))
    /\ [][nFailed = 1 => /\ nWrites' = nWrites
                         /\ (cvars' # cvars => cpc' = "done")]_vars

\* C5 witness: the third or a later write failed after all earlier ones
\* succeeded, and the client has disconnected and returned.
C5_Witness ==
    /\ nFailed = 1 /\ nWrites >= 3 /\ nOk = nWrites - 2
    /\ cpc = "done" /\ disc[CSock] = 1

\* C6: after a failed accept the server has not returned and its next
\* transport call is another accept, with no read or disconnect in between;
\* after a successful accept its next call is the read on that handle.
C6_AcceptRetry ==
    /\ [](slast = "accept_err" => spc = "accept" /\ ssock = {})
    /\ [][(slast = "accept_err" /\ svars' # svars)
            => /\ nAccepts' = nAccepts + 1
               /\ slast' \in {"accept_err", "accept_ok"}
               /\ nReads' = nReads
               /\ disc' = disc]_vars
    /\ [][(slast = "accept_ok" /\ svars' # svars)
            => slast' = "read_call" /\ ssock' = ssock]_vars

\* C6 witness: the accepts before the last one failed in a row, the last one
\* succeeded and its connection is being drained.
C6_Witness ==
    /\ nAccepts >= 3 /\ estab \cap SSocks = {1} /\ open \cap SSocks = {1}
    /\ slast = "read_ok"

\* C7: right after a report the byte counter is 0 and the time reference is
\* the clock value of the report; every buffer written with success is in the
\* counter of the open window or in exactly one report.
C7_CounterReset ==
    /\ (cpc = "write" /\ reported) => sentlen = 0 /\ tick1 = tick2
    /\ repBytes + sentlen = BufSize * nOk

\* C7 witness: a report that covered written buffers has just been made.
C7_Witness == cpc = "write" /\ reported /\ repBytes > 0 /\ nOk > 0

\* C8: the rate of a report equals the bytes the writes of its window wrote,
\* times 8 * 10^6, over 1024 * 1024 times the clock difference of the window.
C8_RateOfBytesWritten ==
    (cpc = "write" /\ reported)
        => lastrep.f = Frac(lastrep.sum * 8 * 1000000,
                            1048576 * lastrep.dt)

\* C9: a stream write that returns a byte count adds exactly that count to
\* the byte counter, and one that returns an error leaves the counter alone.
C9_AccumulatesReturnValue ==
    [][(cpc = "writing" /\ cpc' # cpc)
         => sentlen' = (IF res' >= 0 THEN sentlen + res' ELSE sentlen)]_vars

\* C10: during the stream phase every byte of buf is the filler byte.
C10_BufferIsFiller ==
    InStream => \A i \in 1..BufSize : buf[i] = Filler
\* C11: once connected, the client leaves the stream loop only on a step in
\* which a write returns an error, and it returns only after a write has
\* failed, with the result of its last write as the return value; while no
\* write has failed it has not returned.
C11_ReturnsLastWriteResult ==
    /\ [][(InStream /\ ~InStream')
            => /\ cpc' = "disconnect"
               /\ res' < 0
               /\ nFailed' = nFailed + 1]_vars
    /\ []((cpc = "done" /\ CSock \in estab)
            => nFailed = 1 /\ cret = res /\ cret < 0)
    /\ []((CSock \in estab /\ nFailed = 0) => cpc \notin {"disconnect", "done"})

\* C11 witness: the client streamed, a stream write failed and the client
\* returned the error of that write.
C11_Witness ==
    /\ cpc = "done" /\ CSock \in estab /\ nOk >= 1
    /\ cret = res /\ cret < 0

\* C12: after a read that returned a count (0 included) the server's next
\* call is another read on the same handle; after a read that returned an
\* error its next call is the disconnect; reads are only in flight on a
\* handle that is open.
C12_ReadsUntilError ==
    /\ [](slast = "read_ok" => spc = "read" /\ read_res >= 0)
    /\ [](slast = "read_err" => spc = "disconnect" /\ read_res < 0)
    /\ [](spc = "reading" => ssock # {} /\ ssock \subseteq open)
    /\ [][(slast = "read_ok" /\ svars' # svars)
            => slast' = "read_call" /\ ssock' = ssock]_vars
    /\ [][(slast = "read_err" /\ svars' # svars)
            => slast' = "disconnect" /\ nReads' = nReads]_vars

\* C12 witness: a read returned 0 and the server has issued the next read on
\* the same connection.
C12_Witness ==
    /\ spc = "reading" /\ read_res = 0 /\ nReads >= 2
    /\ Cardinality(estab \cap SSocks) = 1

\* C13 as stated: the server routine has never returned.
C13_NeverReturns == spc # "returned"

\* C13 amended: the server routine returns (1) exactly when sock_tcp_listen
\* failed, before any accept; once the listen succeeded it is at the accept
\* or draining a connection for ever, whatever the accepts and reads return.
C13_ReturnsOnlyOnListenFailure ==
    /\ spc = "returned" <=> slast = "listen_err"
    /\ spc = "returned" => sret = 1 /\ nAccepts = 0
    /\ slast \notin {"none", "listen_err"}
         => spc \in {"accept", "read", "reading", "disconnect"}

\* C13 witness: after failed accepts and a drained connection the server is
\* at the accept again.
C13_Witness ==
    /\ spc = "accept" /\ slast = "accept_err"
    /\ nAccepts >= 2 /\ nReads >= 1 /\ \E h \in SSocks : disc[h] = 1

\* C14: buf is never in use by an in-flight read and an in-flight write at
\* the same time.
C14_OneCallOnBuf == ~(spc = "reading" /\ cpc = "writing")

\* the difference line 107 computed in the current iteration
CheckedDiff == IF reported THEN lastrep.dt ELSE TickDiff(tick2, tick1)

\* C15: an iteration reports exactly when the clock value it read is at
\* least the interval past the time reference; a report has a divisor of at
\* least the interval and comes at least the interval of true time after the
\* previous one; when the write is issued no report is due any more.
C15_ReportWhenDue ==
    /\ [][(cpc = "loop" /\ cpc' = "write")
            => (reported' <=> TickDiff(tick2', tick1) >= ReportInterval)]_vars
    /\ []((cpc = "write" /\ reported)
            => /\ lastrep.dt >= ReportInterval /\ lastrep.dt > 0
               /\ elapsed >= ReportInterval)
    /\ [](cpc \in {"write", "writing"}
            => TickDiff(tick2, tick1) < ReportInterval)
    /\ [][nWrites' # nWrites => lastrep' = lastrep /\ reported' = reported]_vars

\* C15 witness: a report made exactly one interval after the time reference,
\* before the write of that iteration.
C15_Witness ==
    /\ cpc = "write" /\ reported /\ lastrep.dt = ReportInterval
    /\ elapsed = ReportInterval /\ nOk >= 1

\* C16: one connect at most and none after the return; writes only on the
\* established, not yet disconnected connection; the first write is the
\* handshake of sizeof("Hello!") bytes, every later one a stream write of
\* sizeof(buf) bytes; the disconnect comes last.
C16_CallOrder ==
    /\ [](/\ nConnects <= 1
          /\ cpc \notin {"memset", "connect"} => nConnects = 1
          /\ nWrites >= 1 => CSock \in estab
          /\ (CSock \in estab /\ cpc # "handshake") => nWrites >= 1
          /\ nWrites = 0 => wlen = 0
          /\ nWrites = 1 => wlen = HelloLen
          /\ nWrites > 1 => wlen = BufSize
          /\ disc[CSock] > 0 => cpc = "done")
    /\ [][nWrites' # nWrites
            => /\ CSock \in open /\ disc[CSock] = 0
               /\ nWrites = 0 <=> cpc = "handshake"]_vars
    /\ [][cpc = "done" => nConnects' = nConnects /\ nWrites' = nWrites]_vars

\* C16 witness: connect, handshake, two stream writes, disconnect, return.
C16_Witness ==
    /\ cpc = "done" /\ nConnects = 1 /\ nWrites >= 3 /\ wlen = BufSize
    /\ disc[CSock] = 1

C20_ModularElapsed ==
    cpc \in {"write", "writing"}
        => /\ CheckedDiff = elapsed % TickMod
           /\ elapsed < TickMod
                => /\ CheckedDiff = elapsed
                   /\ reported <=> elapsed >= ReportInterval
                   /\ reported => lastrep.dt = elapsed

\* C20 witness: the counter wrapped between the time reference and the
\* reading of a report, and the divisor is the true elapsed time.
C20_Witness ==
    /\ cpc = "write" /\ reported /\ elapsed < TickMod
    /\ tick2 < lastrep.dt /\ lastrep.dt = elapsed
\* the server alone, with no bound on the number of its calls
ServerLive ==
    \/ s_listen
    \/ s_accept_live
    \/ s_read_call_live
    \/ s_read_ret
    \/ s_disconnect

\* the server thread is scheduled, each of its blocking calls returns, and
\* every accepted connection yields a read error in the end
ServerFair ==
    /\ WF_vars(s_listen)
    /\ WF_vars(s_accept_live)
    /\ WF_vars(s_read_call_live)
    /\ WF_vars(s_read_ret)
    /\ WF_vars(s_disconnect)
    /\ SF_vars(\E r \in Errors, b \in PeerBytes : s_read_ret_with(r, b))

SpecServerLive == Init /\ [][ServerLive]_vars /\ ServerFair

\* the client alone, with no bound on the number of its writes
ClientLive ==
    \/ c_memset
    \/ c_connect
    \/ c_handshake
    \/ c_tick1
    \/ c_loop
    \/ c_write_call_live
    \/ c_write_ret
    \/ c_disconnect

\* the client thread is scheduled, each of its blocking calls returns, and
\* the microsecond clock keeps advancing between the readings of the loop
ClientFair ==
    /\ WF_vars(c_memset)
    /\ WF_vars(c_connect)
    /\ WF_vars(c_handshake)
    /\ WF_vars(c_tick1)
    /\ WF_vars(c_loop)
    /\ WF_vars(c_write_call_live)
    /\ WF_vars(c_write_ret)
    /\ WF_vars(c_disconnect)
    /\ SF_vars(\E d \in Deltas \ {0} : c_loop_after(d))

SpecClientLive == Init /\ [][ClientLive]_vars /\ ClientFair

\* C18: when every call of the server returns and every accepted connection
\* yields a read error in the end, a server that holds a connection gets back
\* to the accept through the disconnect, and a server whose listen succeeded
\* issues accept calls again and again.
C18_AcceptsAgain ==
    /\ (spc \in {"read", "reading", "disconnect"})
         ~> (spc = "accept" /\ slast = "disconnect")
    /\ (slast = "listen_ok") ~> (slast \in {"accept_ok", "accept_err"})
    /\ <>(slast = "listen_ok") => []<><<s_accept_live>>_vars

\* C18 witness: the server is back at the accept after it drained and
\* disconnected its second connection.
C18_Witness ==
    /\ spc = "accept" /\ slast = "disconnect"
    /\ Cardinality(estab \cap SSocks) >= 2 /\ nReads >= 1

\* an iteration of the stream loop that made a report
RepNow == cpc = "write" /\ reported

\* C19 as stated: while no write fails and the clock keeps advancing, the
\* client that entered the stream loop reports again and again.
C19_ReportsForever ==
    ([](nFailed = 0) /\ <>InStream) => []<>RepNow

\* C19 amended: while no write fails, the clock keeps advancing and every
\* clock reading of the loop comes at most the modulus of the clock less the
\* interval after the previous one, the client that entered the stream loop
\* reports again and again.
C19_ReportsForeverIfRead ==
    ([](nFailed = 0) /\ [](~late) /\ <>InStream) => []<>RepNow

\* C19 witness: a second report of a client whose readings were never late.
C19_Witness ==
    RepNow /\ repBytes >= 1 /\ ~late /\ nFailed = 0 /\ nOk >= 2
====
